---- MODULE Spec2Model ----
(***************************************************************************)
(* State-machine model of the PWAInstallDemo React component               *)
(* (src/src/PWAInstallDemo.tsx): its three hook state cells, the           *)
(* localStorage entry "pwa_installed", the host's display mode, the        *)
(* BeforeInstallPromptEvent objects delivered by the host with their       *)
(* prompt() calls and pending userChoice callbacks, the service-worker     *)
(* registration promise and the fallback timers of openInstalledPWA.       *)
(***************************************************************************)
EXTENDS Naturals, FiniteSets

\* ---- bounds of the model ----
\* number of distinct BeforeInstallPromptEvent objects the host can deliver
\* during one page load
MaxHandles == 2
\* number of times installPWA can be clicked on one held event object
MaxPromptCalls == 2
\* number of fallback timers of openInstalledPWA that can be pending at once
MaxTimers == 2

Handles == 1 .. MaxHandles

\* useState<BeforeInstallPromptEvent | null>(null): the null value (event
\* objects are numbered from 1)
Null == 0
\* localStorage.getItem("pwa_installed") when the key does not exist
NoItem == "absent"
\* the sentinel written by localStorage.setItem("pwa_installed", "true")
Sentinel == "true"

VARIABLES
    storage,          \* localStorage["pwa_installed"]: NoItem or a string
    mediaStandalone,  \* window.matchMedia("(display-mode: standalone)").matches
    navStandalone,    \* navigator.standalone === true
    swSupported,      \* "serviceWorker" in navigator
    phase,            \* "rendered": first render done, effect not yet run;
                      \* "mounted": effect has run; "unmounted": cleanup has
                      \* run, page still alive; "unloaded": page is gone
    deferredPrompt,   \* hook state: the held event object, or Null
    isStandalone,     \* hook state
    isInstalled,      \* hook state
    listening,        \* both window listeners are subscribed
    delivered,        \* event objects delivered during this page load
    promptCalls,      \* per event object: number of prompt() invocations
    callbacks,        \* per event object: pending userChoice.then callbacks
    choice,           \* per event object: "none" or the resolved outcome
    swReg,            \* register() promise: "none", "pending", "registered", "failed"
    timers,           \* pending setTimeout callbacks of openInstalledPWA
    lastAlert,        \* text of the last alert() shown during this page load
    loadCause,        \* why this page load happened: "open" or "reset"
    installedSeen,    \* an appinstalled notification was handled this load
    lastOp            \* the operation that produced this state

hookVars == <<deferredPrompt, isStandalone, isInstalled>>
envVars == <<mediaStandalone, navStandalone, swSupported>>
promptVars == <<delivered, promptCalls, callbacks, choice>>
\* everything the program or the user can observe (lastOp is book-keeping)
progVars == <<storage, envVars, phase, hookVars, listening, promptVars, swReg,
              timers, lastAlert, loadCause, installedSeen>>
vars == <<progVars, lastOp>>

Outcomes == {"accepted", "dismissed"}

\* ---- helpers (lines 17-28) ----
checkStandalone == mediaStandalone \/ navStandalone

\* mutants: the storage entry is not consulted; the comparison is negated
checkInstalledNoStorage == checkStandalone
checkInstalledNegated == checkStandalone \/ storage # Sentinel
checkInstalled == checkStandalone \/ storage = Sentinel

\* ---- render (lines 103-169) ----
Rendered == phase \in {"rendered", "mounted"}

View ==
    IF isStandalone THEN "standalone"
    ELSE IF isInstalled THEN "installed-browser"
    ELSE "not-installed"

ShowsStandalone == isStandalone
ShowsInstalledBrowser == ~isStandalone /\ isInstalled
ShowsNotInstalled == ~isStandalone /\ ~isInstalled

InstallButtonShown == ~isStandalone /\ ~isInstalled
InstallButtonDisabled == deferredPrompt = Null
InstallButtonEnabled == InstallButtonShown /\ ~InstallButtonDisabled
\* mutant: the standalone test is missing
OpenButtonShownInStandalone == isInstalled
OpenButtonShown == isInstalled /\ ~isStandalone
ResetButtonShown == isInstalled /\ ~isStandalone
UninstallButtonShown == isStandalone

\* ---- a fresh JavaScript context: what every page load starts from ----
FreshContext ==
    /\ deferredPrompt' = Null
    /\ isStandalone' = FALSE
    /\ isInstalled' = FALSE
    /\ listening' = FALSE
    /\ delivered' = {}
    /\ promptCalls' = [h \in Handles |-> 0]
    /\ callbacks' = [h \in Handles |-> 0]
    /\ choice' = [h \in Handles |-> "none"]
    /\ swReg' = "none"
    /\ timers' = 0
    /\ installedSeen' = FALSE

Init ==
    /\ storage \in {NoItem, Sentinel}
    /\ mediaStandalone \in BOOLEAN
    /\ navStandalone \in BOOLEAN
    /\ swSupported \in BOOLEAN
    /\ phase = "rendered"
    /\ deferredPrompt = Null
    /\ isStandalone = FALSE
    /\ isInstalled = FALSE
    /\ listening = FALSE
    /\ delivered = {}
    /\ promptCalls = [h \in Handles |-> 0]
    /\ callbacks = [h \in Handles |-> 0]
    /\ choice = [h \in Handles |-> "none"]
    /\ swReg = "none"
    /\ timers = 0
    /\ lastAlert = "none"
    /\ loadCause = "open"
    /\ installedSeen = FALSE
    /\ lastOp = "load"

\* The user opens the page again (new tab, new window, the installed app):
\* a new JavaScript context over the same localStorage.
PageLoad ==
    /\ mediaStandalone' \in BOOLEAN
    /\ navStandalone' \in BOOLEAN
    /\ swSupported' \in BOOLEAN
    /\ phase' = "rendered"
    /\ FreshContext
    /\ lastAlert' = "none"
    /\ loadCause' = "open"
    /\ lastOp' = "load"
    /\ UNCHANGED storage

\* ---- Initialize: the effect body, lines 71-95 ----
Initialize ==
    /\ phase = "rendered"
    /\ isStandalone' = checkStandalone
    /\ isInstalled' = checkInstalled
    /\ listening' = TRUE
    /\ swReg' = IF swSupported THEN "pending" ELSE "none"
    /\ phase' = "mounted"
    /\ lastOp' = "Initialize"
    /\ UNCHANGED <<storage, envVars, deferredPrompt, promptVars, timers,
                   lastAlert, loadCause, installedSeen>>

\* register().then / .catch, lines 93-94: both only log
SWRegistered ==
    /\ swReg = "pending"
    /\ swReg' = "registered"
    /\ lastOp' = "sw:registered"
    /\ UNCHANGED <<storage, envVars, phase, hookVars, listening, promptVars,
                   timers, lastAlert, loadCause, installedSeen>>

\* mutant: the rejection escapes and takes the listeners down with it
SWFailedStopsListening ==
    /\ swReg = "pending"
    /\ swReg' = "failed"
    /\ listening' = FALSE
    /\ lastOp' = "sw:failed"
    /\ UNCHANGED <<storage, envVars, phase, hookVars, promptVars, timers,
                   lastAlert, loadCause, installedSeen>>

SWFailed ==
    /\ swReg = "pending"
    /\ swReg' = "failed"
    /\ lastOp' = "sw:failed"
    /\ UNCHANGED <<storage, envVars, phase, hookVars, listening, promptVars,
                   timers, lastAlert, loadCause, installedSeen>>

\* ---- handleBeforeInstall, lines 75-78 ----
handleBeforeInstall(h) ==
    /\ listening
    /\ h \notin delivered
    /\ deferredPrompt' = h
    /\ delivered' = delivered \cup {h}
    /\ lastOp' = "beforeinstallprompt"
    /\ UNCHANGED <<storage, envVars, phase, isStandalone, isInstalled,
                   listening, promptCalls, callbacks, choice, swReg, timers,
                   lastAlert, loadCause, installedSeen>>

\* ---- handleAppInstalled, lines 80-84 ----
\* mutant: the held event object is kept
handleAppInstalledKeepsPrompt ==
    /\ listening
    /\ storage' = Sentinel
    /\ isInstalled' = TRUE
    /\ installedSeen' = TRUE
    /\ lastOp' = "appinstalled"
    /\ UNCHANGED <<envVars, phase, deferredPrompt, isStandalone, listening,
                   promptVars, swReg, timers, lastAlert, loadCause>>

handleAppInstalled ==
    /\ listening
    /\ storage' = Sentinel
    /\ isInstalled' = TRUE
    /\ deferredPrompt' = Null
    /\ installedSeen' = TRUE
    /\ lastOp' = "appinstalled"
    /\ UNCHANGED <<envVars, phase, isStandalone, listening, promptVars, swReg,
                   timers, lastAlert, loadCause>>

\* The host dispatches beforeinstallprompt or appinstalled while the page is
\* alive and no listener is subscribed (before line 86 or after line 98):
\* no code of the component runs.
UnheardNotification ==
    /\ phase \in {"rendered", "unmounted"}
    /\ ~listening
    /\ lastOp' \in {"beforeinstallprompt:unheard", "appinstalled:unheard"}
    /\ UNCHANGED progVars

\* ---- installPWA, lines 31-43 ----
\* line 32: the early return
\* mutant: the early return is missing and the install is recorded
installPWANoHandleRecords ==
    /\ deferredPrompt = Null
    /\ storage' = Sentinel
    /\ isInstalled' = TRUE
    /\ lastOp' = "installPWA:return"
    /\ UNCHANGED <<envVars, phase, deferredPrompt, isStandalone, listening,
                   promptVars, swReg, timers, lastAlert, loadCause,
                   installedSeen>>

installPWANoHandle ==
    /\ deferredPrompt = Null
    /\ lastOp' = "installPWA:return"
    /\ UNCHANGED progVars

\* lines 34-36: prompt() and the registration of the userChoice callback
installPWAPrompt ==
    /\ deferredPrompt # Null
    /\ promptCalls' = [promptCalls EXCEPT ![deferredPrompt] = @ + 1]
    /\ callbacks' = [callbacks EXCEPT ![deferredPrompt] = @ + 1]
    /\ lastOp' = "installPWA:prompt"
    /\ UNCHANGED <<storage, envVars, phase, hookVars, listening, delivered,
                   choice, swReg, timers, lastAlert, loadCause, installedSeen>>

installPWA == installPWANoHandle \/ installPWAPrompt

\* the user clicks the install button (lines 135-145); a disabled button
\* dispatches no click
ClickInstall ==
    /\ phase = "mounted"
    /\ InstallButtonEnabled
    /\ promptCalls[deferredPrompt] < MaxPromptCalls
    /\ installPWA

\* installPWA entered while no event object is held
InstallNoHandle ==
    /\ phase = "mounted"
    /\ deferredPrompt = Null
    /\ installPWA

\* the userChoice callback, lines 36-42, as functions of the outcome
\* mutant: the storage entry is not written
ThenStorageNoWrite(o, s) == s
\* mutant: the storage entry is written whatever the outcome
ThenStorageAlways(o, s) == Sentinel
ThenStorage(o, s) == IF o = "accepted" THEN Sentinel ELSE s

\* mutant: setIsInstalled(true) is missing
ThenInstalledNoSet(o, b) == b
ThenInstalled(o, b) == IF o = "accepted" THEN TRUE ELSE b

\* mutant: setDeferredPrompt(null) sits inside the if
ThenDeferredOnAccept(o, d) == IF o = "accepted" THEN Null ELSE d
ThenDeferred(o, d) == Null

\* The user answers the prompt of event object h: userChoice resolves and
\* every callback registered on it runs.  React ignores state updates of a
\* component that is no longer mounted; localStorage is written regardless.
ResolveChoice(h, o) ==
    /\ promptCalls[h] > 0
    /\ choice[h] = "none"
    /\ callbacks[h] > 0
    /\ choice' = [choice EXCEPT ![h] = o]
    /\ callbacks' = [callbacks EXCEPT ![h] = 0]
    /\ storage' = ThenStorage(o, storage)
    /\ IF phase = "mounted"
       THEN /\ isInstalled' = ThenInstalled(o, isInstalled)
            /\ deferredPrompt' = ThenDeferred(o, deferredPrompt)
       ELSE UNCHANGED <<isInstalled, deferredPrompt>>
    /\ lastOp' = IF o = "accepted" THEN "choice:accepted" ELSE "choice:dismissed"
    /\ UNCHANGED <<envVars, phase, isStandalone, listening, delivered,
                   promptCalls, swReg, timers, lastAlert, loadCause,
                   installedSeen>>

\* ---- openInstalledPWA, lines 46-54 ----
\* The navigation to the custom scheme either leaves the page in place (the
\* scheme is handed to another application, or is refused) or replaces it.
openInstalledPWA ==
    /\ timers < MaxTimers
    /\ \/ /\ timers' = timers + 1
          /\ UNCHANGED <<phase, hookVars, listening, promptVars, swReg,
                         installedSeen>>
       \/ /\ phase' = "unloaded"
          /\ FreshContext
    /\ lastOp' = "openInstalledPWA"
    /\ UNCHANGED <<storage, envVars, lastAlert, loadCause>>

ClickOpen ==
    /\ phase = "mounted"
    /\ OpenButtonShown
    /\ openInstalledPWA

\* the setTimeout callback, lines 49-53
TimerFires ==
    /\ timers > 0
    /\ timers' = timers - 1
    /\ lastAlert' = "openFallback"
    /\ lastOp' = "timer"
    /\ UNCHANGED <<storage, envVars, phase, hookVars, listening, promptVars,
                   swReg, loadCause, installedSeen>>

\* ---- uninstallPWA, lines 57-68 ----
\* mutant: the standalone test is missing, the page always reloads
uninstallPWAAlwaysReloads ==
    /\ storage' = NoItem
    /\ lastOp' = "uninstallPWA"
    /\ lastAlert' = "statusCleared"
    /\ phase' = "rendered"
    /\ FreshContext
    /\ loadCause' = "reset"
    /\ UNCHANGED envVars

\* mutant: the storage entry is not removed
uninstallPWAKeepsFlag ==
    /\ lastOp' = "uninstallPWA"
    /\ IF checkStandalone
       THEN /\ lastAlert' = "uninstallHelp"
            /\ UNCHANGED <<storage, envVars, phase, hookVars, listening,
                           promptVars, swReg, timers, loadCause, installedSeen>>
       ELSE /\ lastAlert' = "statusCleared"
            /\ phase' = "rendered"
            /\ FreshContext
            /\ loadCause' = "reset"
            /\ UNCHANGED <<storage, envVars>>

uninstallPWA ==
    /\ storage' = NoItem
    /\ lastOp' = "uninstallPWA"
    /\ IF checkStandalone
       THEN /\ lastAlert' = "uninstallHelp"
            /\ UNCHANGED <<envVars, phase, hookVars, listening, promptVars,
                           swReg, timers, loadCause, installedSeen>>
       ELSE \* window.location.reload(): a new context in the same window
            /\ lastAlert' = "statusCleared"
            /\ phase' = "rendered"
            /\ FreshContext
            /\ loadCause' = "reset"
            /\ UNCHANGED envVars

\* the "Reset Installation Status" button, lines 152-154
ClickReset ==
    /\ phase = "mounted"
    /\ ResetButtonShown
    /\ uninstallPWA

\* the "Uninstall PWA" button, lines 158-162
ClickUninstall ==
    /\ phase = "mounted"
    /\ UninstallButtonShown
    /\ uninstallPWA

\* ---- Teardown: the effect's cleanup, lines 97-100 ----
\* React runs it when it unmounts the component, and discards the hook state.
\* mutant: the listeners are not removed
TeardownKeepsListeners ==
    /\ phase = "mounted"
    /\ phase' = "unmounted"
    /\ deferredPrompt' = Null
    /\ isStandalone' = FALSE
    /\ isInstalled' = FALSE
    /\ lastOp' = "Teardown"
    /\ UNCHANGED <<storage, envVars, listening, promptVars, swReg, timers,
                   lastAlert, loadCause, installedSeen>>

Teardown ==
    /\ phase = "mounted"
    /\ phase' = "unmounted"
    /\ listening' = FALSE
    /\ deferredPrompt' = Null
    /\ isStandalone' = FALSE
    /\ isInstalled' = FALSE
    /\ lastOp' = "Teardown"
    /\ UNCHANGED <<storage, envVars, promptVars, swReg, timers, lastAlert,
                   loadCause, installedSeen>>

Next ==
    \/ PageLoad
    \/ Initialize
    \/ SWRegistered
    \/ SWFailed
    \/ \E h \in Handles : handleBeforeInstall(h)
    \/ handleAppInstalled
    \/ UnheardNotification
    \/ ClickInstall
    \/ InstallNoHandle
    \/ \E h \in Handles, o \in Outcomes : ResolveChoice(h, o)
    \/ ClickOpen
    \/ TimerFires
    \/ ClickReset
    \/ ClickUninstall
    \/ Teardown

Spec == Init /\ [][Next]_vars

TypeOK ==
    /\ storage \in {NoItem, Sentinel}
    /\ phase \in {"rendered", "mounted", "unmounted", "unloaded"}
    /\ deferredPrompt \in Handles \cup {Null}
    /\ isStandalone \in BOOLEAN
    /\ isInstalled \in BOOLEAN
    /\ listening = (phase = "mounted")
    /\ delivered \subseteq Handles
    /\ \A h \in Handles : promptCalls[h] \in 0 .. MaxPromptCalls
    /\ \A h \in Handles : choice[h] \in Outcomes \cup {"none"}
    /\ \A h \in Handles : choice[h] = "none" => callbacks[h] = promptCalls[h]
    /\ deferredPrompt # Null => choice[deferredPrompt] = "none"
    /\ swReg \in {"none", "pending", "registered", "failed"}
    /\ timers \in 0 .. MaxTimers

\* an event object whose prompt was shown and whose userChoice is pending
ChoicePending(h) == promptCalls[h] > 0 /\ choice[h] = "none"

ExactlyOneView ==
    /\ ShowsStandalone \/ ShowsInstalledBrowser \/ ShowsNotInstalled
    /\ ~(ShowsStandalone /\ ShowsInstalledBrowser)
    /\ ~(ShowsStandalone /\ ShowsNotInstalled)
    /\ ~(ShowsInstalledBrowser /\ ShowsNotInstalled)

\* ------------------------------------------------------------------------
\* C1: right after Initialize the display state is the one the pair
\* (standalone, storage entry present) determines: (true, any) standalone,
\* (false, present) installed-browser, (false, absent) not-installed; and
\* whenever the component is rendered exactly one of the three display
\* states is shown.
C1_DisplayDetermined ==
    /\ lastOp = "Initialize" =>
          View = (IF checkStandalone THEN "standalone"
                  ELSE IF storage # NoItem THEN "installed-browser"
                  ELSE "not-installed")
    /\ Rendered => ExactlyOneView

C1_Witness ==
    /\ lastOp = "Initialize"
    /\ ~checkStandalone
    /\ storage = Sentinel
    /\ View = "installed-browser"

\* C2: when the userChoice of a prompted event object resolves, the held
\* event object is cleared; on "accepted" the storage entry is present, on
\* "dismissed" the storage entry is left as it was (absent stays absent).
C2_ChoiceResolution ==
    [][\A h \in Handles :
         (choice[h] = "none" /\ choice'[h] # "none") =>
            /\ deferredPrompt' = Null
            /\ choice'[h] = "accepted" => storage' = Sentinel
            /\ choice'[h] = "dismissed" => storage' = storage]_vars

C2_Witness ==
    /\ lastOp = "choice:dismissed"
    /\ phase = "mounted"
    /\ delivered # {}
    /\ storage = NoItem
    /\ deferredPrompt = Null

\* C3: the state right after the appinstalled notification has the storage
\* entry present, isInstalled true and no event object held, whatever was
\* held or pending before.
C3_AppInstalled ==
    lastOp = "appinstalled" =>
        storage = Sentinel /\ isInstalled /\ deferredPrompt = Null

C3_Witness ==
    /\ lastOp = "appinstalled"
    /\ \E h \in Handles : ChoicePending(h)
    /\ deferredPrompt = Null

\* C4: uninstallPWA always removes the storage entry; when the app is
\* standalone at that moment the page is not reloaded and the uninstall
\* instructions are shown, otherwise the page is reloaded.
C4_Reset ==
    [][lastOp' = "uninstallPWA" =>
         /\ storage' = NoItem
         /\ checkStandalone =>
               /\ phase' = phase
               /\ hookVars' = hookVars
               /\ loadCause' = loadCause
               /\ lastAlert' = "uninstallHelp"
         /\ ~checkStandalone =>
               /\ phase' = "rendered"
               /\ loadCause' = "reset"]_vars

C4_Witness ==
    /\ lastOp = "uninstallPWA"
    /\ checkStandalone
    /\ phase = "mounted"
    /\ lastAlert = "uninstallHelp"
    /\ storage = NoItem

\* C5: installPWA entered while no event object is held changes nothing:
\* storage entry, hook state, prompt() counts and everything else the
\* program can observe are unchanged (so any number of repetitions leave
\* the same state).
C5_InstallNoHandleNoop ==
    [][(deferredPrompt = Null
        /\ lastOp' \in {"installPWA:return", "installPWA:prompt"}) =>
          progVars' = progVars]_vars

C5_Witness ==
    /\ lastOp = "installPWA:return"
    /\ phase = "mounted"
    /\ deferredPrompt = Null
    /\ \A h \in Handles : promptCalls[h] = 0

\* C6: with no storage entry, not standalone and no beforeinstallprompt
\* delivered yet, the rendered view is the not-installed one with the
\* install button present and disabled; and wherever the install button is
\* rendered it is enabled exactly when an event object is held.
C6_FreshInstallDisabled ==
    /\ (Rendered /\ storage = NoItem /\ ~checkStandalone /\ delivered = {}) =>
          /\ View = "not-installed"
          /\ InstallButtonShown
          /\ InstallButtonDisabled
          /\ ~InstallButtonEnabled
    /\ (Rendered /\ InstallButtonShown) =>
          (InstallButtonEnabled <=> deferredPrompt # Null)

C6_Witness ==
    /\ phase = "mounted"
    /\ loadCause = "open"
    /\ storage = NoItem
    /\ ~checkStandalone
    /\ delivered = {}
    /\ InstallButtonShown
    /\ InstallButtonDisabled

\* C7: in the not-installed view a beforeinstallprompt notification enables
\* the install button; and when the choice then resolves as accepted the
\* storage entry is "true" and the view is the installed-browser one (no
\* install button, open and reset buttons shown).
C7_AcceptedInstall ==
    [][/\ (lastOp' = "beforeinstallprompt" /\ View = "not-installed") =>
             InstallButtonEnabled'
       /\ (lastOp' = "choice:accepted" /\ phase = "mounted"
            /\ View = "not-installed") =>
             /\ storage' = Sentinel
             /\ View' = "installed-browser"
             /\ ~InstallButtonShown'
             /\ OpenButtonShown'
             /\ ResetButtonShown']_vars

C7_Witness ==
    /\ lastOp = "choice:accepted"
    /\ phase = "mounted"
    /\ ~installedSeen
    /\ storage = Sentinel
    /\ View = "installed-browser"

\* C8: every delivered event object has its prompt() invoked at most once,
\* and at most one userChoice is pending at any time (installPWA is not
\* started again while an earlier choice is pending).
C8_SingleUse ==
    /\ \A h \in Handles : promptCalls[h] <= 1
    /\ Cardinality({h \in Handles : ChoicePending(h)}) <= 1

\* C9: while the component is mounted, isInstalled is true exactly when
\* the app is standalone or the storage entry is present.
C9_InstalledIff ==
    phase = "mounted" =>
        (isInstalled <=> (checkStandalone \/ storage # NoItem))

C9_Witness ==
    /\ lastOp = "choice:accepted"
    /\ phase = "mounted"
    /\ ~checkStandalone
    /\ ~installedSeen
    /\ isInstalled

\* C10: after a reset in the installed-browser view has reloaded the page
\* and Initialize has run again, and for as long as no notification has
\* arrived since, the storage entry is absent, isInstalled is false, no
\* event object is held and the not-installed view is shown with the
\* install button disabled.
C10_ResetReload ==
    (phase = "mounted" /\ loadCause = "reset" /\ delivered = {}
     /\ ~installedSeen) =>
        /\ storage = NoItem
        /\ ~isInstalled
        /\ deferredPrompt = Null
        /\ View = "not-installed"
        /\ InstallButtonShown
        /\ InstallButtonDisabled

C10_Witness ==
    /\ lastOp = "Initialize"
    /\ loadCause = "reset"
    /\ phase = "mounted"
    /\ storage = NoItem
    /\ View = "not-installed"

\* the three values every install path ends in
InstalledFinal == storage = Sentinel /\ isInstalled /\ deferredPrompt = Null

NotificationLabels ==
    {"beforeinstallprompt", "appinstalled", "beforeinstallprompt:unheard",
     "appinstalled:unheard"}

\* C11: the fallback message of openInstalledPWA is shown only while the
\* component's view is still present (the timer callback runs only in a
\* mounted component), and openInstalledPWA changes neither the storage
\* entry nor, in the component it leaves in place, isInstalled or the held
\* event object.
C11_FallbackOnlyInView ==
    [][/\ lastOp' = "timer" => phase = "mounted"
       /\ lastOp' = "openInstalledPWA" =>
             /\ storage' = storage
             /\ phase' = "mounted" =>
                   /\ isInstalled' = isInstalled
                   /\ deferredPrompt' = deferredPrompt]_vars

\* C12: a second appinstalled notification right after the first changes
\* nothing, and appinstalled after an accepted choice, or an accepted choice
\* after appinstalled, both end with the storage entry present, isInstalled
\* true and no event object held.
C12_InstalledIdempotent ==
    [][/\ (lastOp = "appinstalled" /\ lastOp' = "appinstalled") =>
             progVars' = progVars
       /\ (lastOp' = "appinstalled"
           /\ \E h \in Handles : choice[h] = "accepted") => InstalledFinal'
       /\ (lastOp' = "choice:accepted" /\ installedSeen
           /\ phase = "mounted") => InstalledFinal']_vars

C12_Witness ==
    /\ lastOp = "appinstalled"
    /\ \E h \in Handles : choice[h] = "accepted"
    /\ delivered = Handles
    /\ InstalledFinal

\* C13: once the cleanup has run, a beforeinstallprompt or appinstalled
\* notification changes neither the held event object, isInstalled nor the
\* storage entry.
C13_TeardownUnsubscribes ==
    [][(phase = "unmounted" /\ lastOp' \in NotificationLabels) =>
          /\ deferredPrompt' = deferredPrompt
          /\ isInstalled' = isInstalled
          /\ storage' = storage]_vars

C13_Witness ==
    /\ phase = "unmounted"
    /\ lastOp = "appinstalled:unheard"
    /\ storage = NoItem
    /\ deferredPrompt = Null
    /\ ~isInstalled

\* C14: register() is requested only by Initialize, from a promise not yet
\* requested, and a settled promise is never requested again; its settling
\* changes neither the storage entry, the hook state, the display mode nor
\* the view; and with the registration failed a mounted component still
\* has both listeners subscribed.
C14_WorkerRegistration ==
    [][/\ (swReg' = "pending" /\ swReg # "pending") =>
             (lastOp' = "Initialize" /\ swReg = "none")
       /\ swReg \in {"registered", "failed"} => swReg' \in {swReg, "none"}
       /\ swReg' = "none" => (swReg = "none" \/ phase' # "mounted")
       /\ lastOp' \in {"sw:registered", "sw:failed"} =>
             /\ storage' = storage
             /\ hookVars' = hookVars
             /\ checkStandalone' = checkStandalone
             /\ View' = View
             /\ listening' = listening
       /\ (swReg' = "failed" /\ phase' = "mounted") => listening']_vars

C14_Witness ==
    /\ swReg = "failed"
    /\ phase = "mounted"
    /\ lastOp = "appinstalled"
    /\ InstalledFinal

\* C15: a choice resolving as dismissed for one event object leaves a
\* different, newer event object held.
C15_DiscardsOnlyPrompted ==
    [][\A h \in Handles :
         (choice[h] = "none" /\ choice'[h] = "dismissed"
          /\ deferredPrompt # Null /\ deferredPrompt # h) =>
            deferredPrompt' = deferredPrompt]_vars

\* C16: the storage entry is only ever absent or "true"; it changes only
\* in an accepted choice or an appinstalled notification (to "true") and in
\* uninstallPWA (to absent); every other operation leaves it unchanged.
C16_StorageLifecycle ==
    [][/\ storage \in {NoItem, Sentinel}
       /\ storage' \in {NoItem, Sentinel}
       /\ storage' # storage =>
             \/ lastOp' \in {"choice:accepted", "appinstalled"}
                /\ storage' = Sentinel
             \/ lastOp' = "uninstallPWA" /\ storage' = NoItem]_vars

C16_Witness ==
    /\ lastOp = "Teardown"
    /\ loadCause = "reset"
    /\ storage = Sentinel
    /\ \E h \in Handles : choice[h] = "dismissed"

\* the buttons offered are those of the view shown
OfferMatchesView ==
    Rendered =>
        /\ InstallButtonShown <=> View = "not-installed"
        /\ OpenButtonShown <=> View = "installed-browser"
        /\ ResetButtonShown <=> View = "installed-browser"
        /\ UninstallButtonShown <=> View = "standalone"

\* C17: in every rendered state the buttons offered are exactly those of
\* the display state; a click never starts installPWA while isInstalled is
\* true, and never starts uninstallPWA while the not-installed view shows.
C17_ActionsMatchView ==
    [][/\ OfferMatchesView
       /\ OfferMatchesView'
       /\ lastOp' = "installPWA:prompt" =>
             (~isInstalled /\ View = "not-installed")
       /\ lastOp' = "uninstallPWA" => View # "not-installed"]_vars

C17_Witness ==
    /\ lastOp = "uninstallPWA"
    /\ phase = "mounted"
    /\ View = "standalone"
    /\ UninstallButtonShown
    /\ ~OpenButtonShown
    /\ ~InstallButtonShown

\* C18 as claimed: a choice resolving as accepted after the cleanup has run
\* writes neither the storage entry nor the hook state.
C18_NoWriteAfterTeardown ==
    [][(phase = "unmounted" /\ lastOp' = "choice:accepted") =>
          (storage' = storage /\ hookVars' = hookVars)]_vars

\* C18 amended: a choice resolving as accepted after the cleanup has run
\* still writes the storage entry "true" (the callback is never cancelled),
\* and leaves the hook state unchanged.
C18_WritesFlagAfterTeardown ==
    [][(phase = "unmounted" /\ lastOp' = "choice:accepted") =>
          (storage' = Sentinel /\ hookVars' = hookVars)]_vars

C18_Witness ==
    /\ phase = "unmounted"
    /\ lastOp = "choice:accepted"
    /\ ~installedSeen
    /\ storage = Sentinel
    /\ deferredPrompt = Null
====
